---- MODULE Spec2Model ----
(***************************************************************************)
(* Model of MixChannels_NEON (mixer_neon.c).  NEON registers are modelled  *)
(* lane by lane as bit patterns (naturals below 2^w); memory holds the C   *)
(* values (int8_t / int16_t).  A buffer is a function from 0..cap-1 to its *)
(* elements, cap being the number of elements the caller allocated.        *)
(***************************************************************************)
EXTENDS Integers, Sequences, FiniteSets, TLC

VARIABLES out, data, lvol, rvol, len, hist, status, rdSrc, rdOut, wrOut,
          pc, regs, out2, len2, status2

vars == <<out, data, lvol, rvol, len, hist, status, rdSrc, rdOut, wrOut,
          pc, regs, out2, len2, status2>>

\* the variables of the second run (used by SpecLen only)
NoSecondRun == out2 = << >> /\ len2 = 0 /\ status2 = "none"

(* ------------------------------ bounds -------------------------------- *)
MaxLen    == 9      \* len argument ranges over -1..MaxLen
MaxFrames == 9      \* largest output allocation, in stereo frames
MaxCalls  == 2      \* consecutive calls on the same buffers
MaxParLen == 8      \* len of the two parallel calls ranges over 1..MaxParLen

(* ------------------------- program constants -------------------------- *)
NumLanes == 8       \* int16x8_t / int8x8_t: eight lanes per register
Shift    == 8       \* vshrq_n_s16(.., 8)

Lanes == 0..(NumLanes - 1)

Pow2(n) == 2^n

(* Two's complement views of a lane. *)
Bits8(x)  == x % Pow2(8)
Bits16(x) == x % Pow2(16)
AsS16(b)  == IF b >= Pow2(15) THEN b - Pow2(16) ELSE b

Min(a, b) == IF a < b THEN a ELSE b
Max(a, b) == IF a > b THEN a ELSE b

Cap(buf) == Cardinality(DOMAIN buf)

(* --------------------------- NEON intrinsics --------------------------- *)
\* variant: the scale factor hardcoded to 10, the argument ignored
vdup_n_u8_Hardcoded(v) == [k \in Lanes |-> 10]

\* vdup_n_u8: the unsigned byte repeated into the eight lanes
vdup_n_u8(v) == [k \in Lanes |-> Bits8(v)]

\* vmovl_u8: each u8 lane zero-extended to a u16 lane
vmovl_u8(x) == [k \in Lanes |-> x[k] % Pow2(8)]

\* vreinterpretq_s16_u16: the same 128 bits, typed as signed lanes
vreinterpretq_s16_u16(x) == [k \in Lanes |-> x[k]]

\* variant: the sample bytes widened as if unsigned (vmovl_u8)
vmovl_s8_ZeroExtend(x) == [k \in Lanes |-> x[k]]

\* vmovl_s8: each s8 lane sign-extended to an s16 lane
vmovl_s8(x) ==
    [k \in Lanes |-> IF x[k] >= Pow2(7) THEN x[k] + (Pow2(16) - Pow2(8)) ELSE x[k]]

\* vmulq_s16: lane-wise product, low 16 bits kept
vmulq_s16(a, b) == [k \in Lanes |-> (AsS16(a[k]) * AsS16(b[k])) % Pow2(16)]

\* vshrq_n_s16: lane-wise arithmetic shift right
vshrq_n_s16(a, n) == [k \in Lanes |-> Bits16(AsS16(a[k]) \div Pow2(n))]

\* variant: the plain lane-wise add, which wraps modulo 2^16
vaddq_s16(a, b) == [k \in Lanes |-> (a[k] + b[k]) % Pow2(16)]

\* vqaddq_s16: lane-wise signed saturating add
vqaddq_s16(a, b) ==
    [k \in Lanes |->
        LET sum == AsS16(a[k]) + AsS16(b[k])
        IN  Bits16(IF sum > Pow2(15) - 1 THEN Pow2(15) - 1
                   ELSE IF sum < -Pow2(15) THEN -Pow2(15)
                   ELSE sum)]

(* Memory at p[i]: the element when i is inside the allocation, else       *)
(* whatever the adjacent memory holds (g).                                 *)
Mem(p, i, g) == IF i \in DOMAIN p THEN p[i] ELSE g

\* vld2q_s16: 16 consecutive int16 loaded, de-interleaved into two registers
vld2q_s16(p, g) ==
    [c \in 0..1 |-> [k \in Lanes |-> Bits16(Mem(p, 2 * k + c, g))]]

\* vld1_s8: 8 consecutive int8 loaded
vld1_s8(p, g) == [k \in Lanes |-> Bits8(Mem(p, k, g))]

\* vst2q_s16: two registers interleaved and stored to 16 consecutive int16;
\* only the elements inside the allocation are part of the buffer
vst2q_s16(p, r) ==
    [i \in DOMAIN p |->
        IF i < 2 * NumLanes THEN AsS16(r[i % 2][i \div 2]) ELSE p[i]]

\* indices touched by the three memory accesses
LoadedOut  == 0..(2 * NumLanes - 1)
LoadedSrc  == 0..(NumLanes - 1)
StoredOut  == 0..(2 * NumLanes - 1)

(* The straight-line body of MixChannels_NEON, g standing for the content  *)
(* of memory outside the two allocations.  The len argument is not used.   *)
MixBody(o, d, lv, rv, n, g) ==
    LET scale_factor_l_16   == vmovl_u8(vdup_n_u8(lv))
        scale_factor_r_16   == vmovl_u8(vdup_n_u8(rv))
        scale_factor_16_l_s == vreinterpretq_s16_u16(scale_factor_l_16)
        scale_factor_16_r_s == vreinterpretq_s16_u16(scale_factor_r_16)
        interleaved_audio   == vld2q_s16(o, g)
        data_load           == vld1_s8(d, g)
        data_unpacked       == vmovl_s8(data_load)
        mul_l               == vmulq_s16(data_unpacked, scale_factor_16_l_s)
        mul_r               == vmulq_s16(data_unpacked, scale_factor_16_r_s)
        mixed_l             == vshrq_n_s16(mul_l, Shift)
        mixed_r             == vshrq_n_s16(mul_r, Shift)
        result              == [c \in 0..1 |->
                                  IF c = 0
                                  THEN vqaddq_s16(mixed_l, interleaved_audio[0])
                                  ELSE vqaddq_s16(mixed_r, interleaved_audio[1])]
    IN  vst2q_s16(o, result)

\* variant: the call as a loop over len would make it, only the entries of
\* the first n samples mixed
MixChannels_NEON_Tail(o, d, lv, rv, n) ==
    LET m == MixBody(o, d, lv, rv, n, 0)
    IN  {[status |-> "ok",
          out |-> [i \in DOMAIN o |-> IF i < 2 * n THEN m[i] ELSE o[i]],
          rdSrc |-> 0..(n - 1), rdOut |-> 0..(2 * n - 1), wrOut |-> 0..(2 * n - 1)]}

\* values adjacent memory may hold
Garbage == {-128, 127}

OutOfBounds(o, d) == Cap(o) < 2 * NumLanes \/ Cap(d) < NumLanes

(* Every outcome of one call.  When an access leaves an allocation the     *)
(* behaviour is undefined: the call either faults at that access or goes   *)
(* on with the content of the adjacent memory.                             *)
MixChannels_NEON(o, d, lv, rv, n) ==
    LET completed(g) ==
            [status |-> "ok", out |-> MixBody(o, d, lv, rv, n, g),
             rdSrc |-> LoadedSrc, rdOut |-> LoadedOut, wrOut |-> StoredOut]
        faulted ==
            [status |-> "fault", out |-> o,
             rdSrc |-> IF Cap(o) < 2 * NumLanes THEN {} ELSE LoadedSrc,
             rdOut |-> LoadedOut, wrOut |-> {}]
    IN  IF OutOfBounds(o, d)
        THEN {completed(g) : g \in Garbage} \cup {faulted}
        ELSE {completed(0)}

(* ------------------------------ inputs -------------------------------- *)
Vols     == {0, 128, 255}
OutVals  == {-32768, 0, 32767}
Patterns == {"zero", "min", "ramp"}

Sample(p, i) ==
    CASE p = "zero" -> 0
      [] p = "min"  -> -128
      [] p = "ramp" -> 100 - 20 * i

\* allocations the caller may pass with a given len: one element short,
\* exactly as declared, one full vector, and the largest
SrcCaps(n)   == {c \in {n - 1, n, NumLanes} : c >= 0}
OutFrames(n) == {f \in {n - 1, n, NumLanes, MaxFrames} : f >= 0}

(* ------------------------- sequential calls --------------------------- *)
Init ==
    /\ len \in -1..MaxLen
    /\ lvol \in Vols
    /\ rvol \in Vols
    /\ \E c \in SrcCaps(len), p \in Patterns :
          data = [i \in 0..(c - 1) |-> Sample(p, i)]
    /\ \E f \in OutFrames(len), v \in OutVals :
          out = [i \in 0..(2 * f - 1) |-> v]
    /\ hist = <<out>>
    /\ status = "ready"
    /\ rdSrc = {}
    /\ rdOut = {}
    /\ wrOut = {}
    /\ pc = "call"
    /\ regs = << >>
    /\ NoSecondRun

Call ==
    /\ status \in {"ready", "ok"}
    /\ Len(hist) <= MaxCalls
    /\ \E r \in MixChannels_NEON(out, data, lvol, rvol, len) :
          /\ out' = r.out
          /\ status' = r.status
          /\ rdSrc' = rdSrc \cup r.rdSrc
          /\ rdOut' = rdOut \cup r.rdOut
          /\ wrOut' = wrOut \cup r.wrOut
          /\ hist' = Append(hist, r.out)
    /\ UNCHANGED <<data, lvol, rvol, len, pc, regs, out2, len2, status2>>

Next == Call

Spec == Init /\ [][Next]_vars

(* --------------------- one call, statement by statement --------------- *)
(* The same body on full-size buffers (8 source samples, 16 output         *)
(* samples), with every local register kept in regs.  The inputs cover     *)
(* every uint8_t volume and every int8_t sample.                           *)
U8Max == 255
S8Min == -128

Blocks == 0..((U8Max + 1) \div NumLanes - 1)
Edges  == {"low", "mid", "high"}

\* pre-existing output around the two ends of the int16_t range
OutSample(e, i) ==
    CASE e = "low"  -> -32768 + 16 * (i \div 2)
      [] e = "mid"  -> 0
      [] e = "high" -> 32767 - 16 * (i \div 2)

InitSteps ==
    /\ len = NumLanes
    /\ lvol \in 0..U8Max
    /\ rvol = U8Max - lvol
    /\ \E b \in Blocks : data = [k \in Lanes |-> S8Min + NumLanes * b + k]
    /\ \E e \in Edges : out = [i \in 0..(2 * NumLanes - 1) |-> OutSample(e, i)]
    /\ hist = <<out>>
    /\ status = "ready"
    /\ rdSrc = {}
    /\ rdOut = {}
    /\ wrOut = {}
    /\ pc = "scale"
    /\ regs = << >>
    /\ NoSecondRun

Step(from, to) ==
    /\ pc = from
    /\ pc' = to
    /\ UNCHANGED <<data, lvol, rvol, len, out2, len2, status2>>

Quiet == UNCHANGED <<out, hist, status, rdSrc, rdOut, wrOut>>

ScaleFactors ==
    /\ Step("scale", "load_out")
    /\ LET l16 == vmovl_u8(vdup_n_u8(lvol))
           r16 == vmovl_u8(vdup_n_u8(rvol))
       IN  regs' = [scale_factor_l_16   |-> l16,
                    scale_factor_r_16   |-> r16,
                    scale_factor_16_l_s |-> vreinterpretq_s16_u16(l16),
                    scale_factor_16_r_s |-> vreinterpretq_s16_u16(r16)]
    /\ Quiet

LoadOut ==
    /\ Step("load_out", "load_data")
    /\ regs' = regs @@ [interleaved_audio |-> vld2q_s16(out, 0)]
    /\ rdOut' = rdOut \cup LoadedOut
    /\ UNCHANGED <<out, hist, status, rdSrc, wrOut>>

LoadData ==
    /\ Step("load_data", "mul")
    /\ LET data_load == vld1_s8(data, 0)
       IN  regs' = regs @@ [data_load     |-> data_load,
                            data_unpacked |-> vmovl_s8(data_load)]
    /\ rdSrc' = rdSrc \cup LoadedSrc
    /\ UNCHANGED <<out, hist, status, rdOut, wrOut>>

Multiply ==
    /\ Step("mul", "shift")
    /\ regs' = regs @@ [mul_l |-> vmulq_s16(regs.data_unpacked, regs.scale_factor_16_l_s),
                        mul_r |-> vmulq_s16(regs.data_unpacked, regs.scale_factor_16_r_s)]
    /\ Quiet

ShiftDown ==
    /\ Step("shift", "add")
    /\ regs' = regs @@ [mixed_l |-> vshrq_n_s16(regs.mul_l, Shift),
                        mixed_r |-> vshrq_n_s16(regs.mul_r, Shift)]
    /\ Quiet

Accumulate ==
    /\ Step("add", "done")
    /\ LET result == [c \in 0..1 |->
                        IF c = 0
                        THEN vqaddq_s16(regs.mixed_l, regs.interleaved_audio[0])
                        ELSE vqaddq_s16(regs.mixed_r, regs.interleaved_audio[1])]
       IN  /\ regs' = regs @@ [result |-> result]
           /\ out' = vst2q_s16(out, result)
           /\ hist' = Append(hist, out')
    /\ wrOut' = wrOut \cup StoredOut
    /\ status' = "ok"
    /\ UNCHANGED <<rdSrc, rdOut>>

NextSteps ==
    \/ ScaleFactors
    \/ LoadOut
    \/ LoadData
    \/ Multiply
    \/ ShiftDown
    \/ Accumulate

SpecSteps == InitSteps /\ [][NextSteps]_vars

(* ------------------ two runs that differ in len only ------------------- *)
(* Both runs start from the same out and data buffers and the same         *)
(* volumes; the first is called with len, the second with len2.            *)
InitLen ==
    /\ len \in -1..MaxLen
    /\ len2 \in -1..MaxLen
    /\ len < len2
    /\ lvol \in Vols
    /\ rvol \in Vols
    /\ \E c \in {NumLanes - 1, NumLanes + 1}, p \in {"min", "ramp"} :
          data = [i \in 0..(c - 1) |-> Sample(p, i)]
    /\ \E f \in {NumLanes - 1, MaxFrames}, v \in OutVals :
          out = [i \in 0..(2 * f - 1) |-> v]
    /\ out2 = out
    /\ hist = <<out>>
    /\ status = "ready"
    /\ status2 = "ready"
    /\ rdSrc = {}
    /\ rdOut = {}
    /\ wrOut = {}
    /\ pc = "call"
    /\ regs = << >>

CallFirst ==
    /\ status = "ready"
    /\ \E r \in MixChannels_NEON(out, data, lvol, rvol, len) :
          /\ out' = r.out
          /\ status' = r.status
    /\ UNCHANGED <<data, lvol, rvol, len, hist, rdSrc, rdOut, wrOut, pc, regs,
                   out2, len2, status2>>

CallSecond ==
    /\ status2 = "ready"
    /\ \E r \in MixChannels_NEON(out2, data, lvol, rvol, len2) :
          /\ out2' = r.out
          /\ status2' = r.status
    /\ UNCHANGED <<data, lvol, rvol, len, hist, rdSrc, rdOut, wrOut, pc, regs,
                   out, len2, status>>

NextLen == CallFirst \/ CallSecond

SpecLen == InitLen /\ [][NextLen]_vars

(* ------------------------ two calls in parallel ------------------------ *)
(* Threads A and B each call MixChannels_NEON(out + Base(t), data[t], ..)  *)
(* on one shared buffer; A owns entries 0..2*len-1 and B the 2*len entries *)
(* after them.  Each thread's loads and its store are separate steps; the  *)
(* arithmetic between them touches registers only.  The shared buffer and  *)
(* the source blocks are large enough for every access.                    *)
Threads == {"A", "B"}

Base(t) == IF t = "A" THEN 0 ELSE 2 * len

ParCap == 4 * MaxParLen

\* the memory seen through the pointer buf + base
Window(buf, base) == [i \in 0..(Cap(buf) - base - 1) |-> buf[base + i]]

\* buf after the window at base has been replaced by w
WriteBack(buf, base, w) ==
    [i \in DOMAIN buf |-> IF i >= base THEN w[i - base] ELSE buf[i]]

\* one whole call on the shared buffer
CallAt(buf, t) ==
    WriteBack(buf, Base(t),
              MixBody(Window(buf, Base(t)), data[t], lvol, rvol, len, 0))

InitPar ==
    /\ len \in 1..MaxParLen
    /\ lvol \in Vols
    /\ rvol \in Vols
    /\ data = [t \in Threads |->
                 [i \in 0..(Max(len, NumLanes) - 1) |->
                     Sample(IF t = "A" THEN "ramp" ELSE "min", i)]]
    /\ \E v \in OutVals : out = [i \in 0..(ParCap - 1) |-> v]
    /\ hist = <<out>>
    /\ status = "ready"
    /\ rdSrc = {}
    /\ rdOut = {}
    /\ wrOut = {}
    /\ pc = [t \in Threads |-> "load_out"]
    /\ regs = [t \in Threads |-> << >>]
    /\ NoSecondRun

ParFrame == UNCHANGED <<data, lvol, rvol, len, hist, status, rdSrc, rdOut, wrOut,
                        out2, len2, status2>>

ParLoadOut(t) ==
    /\ pc[t] = "load_out"
    /\ pc' = [pc EXCEPT ![t] = "load_data"]
    /\ regs' = [regs EXCEPT
                  ![t] = [interleaved_audio |-> vld2q_s16(Window(out, Base(t)), 0)]]
    /\ UNCHANGED out
    /\ ParFrame

ParLoadData(t) ==
    /\ pc[t] = "load_data"
    /\ pc' = [pc EXCEPT ![t] = "store"]
    /\ regs' = [regs EXCEPT ![t] = @ @@ [data_load |-> vld1_s8(data[t], 0)]]
    /\ UNCHANGED out
    /\ ParFrame

ParStore(t) ==
    /\ pc[t] = "store"
    /\ pc' = [pc EXCEPT ![t] = "done"]
    /\ LET data_unpacked == vmovl_s8(regs[t].data_load)
           scale_l == vreinterpretq_s16_u16(vmovl_u8(vdup_n_u8(lvol)))
           scale_r == vreinterpretq_s16_u16(vmovl_u8(vdup_n_u8(rvol)))
           mixed_l == vshrq_n_s16(vmulq_s16(data_unpacked, scale_l), Shift)
           mixed_r == vshrq_n_s16(vmulq_s16(data_unpacked, scale_r), Shift)
           result  == [c \in 0..1 |->
                         IF c = 0
                         THEN vqaddq_s16(mixed_l, regs[t].interleaved_audio[0])
                         ELSE vqaddq_s16(mixed_r, regs[t].interleaved_audio[1])]
       IN  out' = WriteBack(out, Base(t), vst2q_s16(Window(out, Base(t)), result))
    /\ UNCHANGED regs
    /\ ParFrame

NextPar == \E t \in Threads : ParLoadOut(t) \/ ParLoadData(t) \/ ParStore(t)

SpecPar == InitPar /\ [][NextPar]_vars

(* ----------------------- per-sample reference ------------------------- *)
Clamp16(x) == Max(-32768, Min(32767, x))

\* (s * vol) >> 8 with an arithmetic (floor) shift
Contribution(s, vol) == (s * vol) \div 256

VolOf(i) == IF i % 2 = 0 THEN lvol ELSE rvol

\* the output after mixing the first n source samples, sample by sample
Reference(o, d, n) ==
    [i \in DOMAIN o |->
        IF i < 2 * n /\ (i \div 2) \in DOMAIN d
        THEN Clamp16(o[i] + Contribution(d[i \div 2], VolOf(i)))
        ELSE o[i]]

Calls == Len(hist) - 1

\* the interface contract: source of exactly len samples, room for 2*len
Mismatch == Cap(data) # len \/ Cap(out) < 2 * len
Valid    == len >= 0 /\ ~Mismatch

\* C1: for every valid input one call leaves the output exactly as the
\* per-sample reference over the first len samples does.
C1_MatchesReference ==
    (Valid /\ Calls = 1 /\ status = "ok") => out = Reference(hist[1], data, len)

\* C2: no source index >= len is read, no output index >= 2*len is read or
\* written, and every output entry at index >= 2*len keeps its value.
C2_StaysInBounds ==
    (len >= 0 /\ Calls >= 1) =>
        /\ rdSrc \subseteq 0..(len - 1)
        /\ rdOut \subseteq 0..(2 * len - 1)
        /\ wrOut \subseteq 0..(2 * len - 1)
        /\ \A i \in DOMAIN out : i >= 2 * len => out[i] = hist[1][i]

\* C4: a call whose source length differs from len, or whose output is
\* shorter than 2*len, is rejected with LengthMismatch before any buffer is
\* read or written, and the output is unchanged.
C4_RejectsMismatch ==
    (Mismatch /\ Calls >= 1) =>
        /\ status = "LengthMismatch"
        /\ rdSrc = {} /\ rdOut = {} /\ wrOut = {}
        /\ out = hist[1]

\* C5: for every valid input two consecutive calls leave each of the 2*len
\* affected output samples equal to clamp16(clamp16(o + c) + c); where
\* c # 0 and nothing clamps, the second result differs from the first.
C5_AddsTwice ==
    (Valid /\ Calls = 2 /\ status = "ok") =>
        \A i \in 0..(2 * len - 1) :
            LET o == hist[1][i]
                c == Contribution(data[i \div 2], VolOf(i))
            IN  /\ out[i] = Clamp16(Clamp16(o + c) + c)
                /\ (c # 0 /\ o + c + c = Clamp16(o + c + c) /\ o + c = Clamp16(o + c))
                       => hist[3][i] # hist[2][i]

C7_ZeroSourcePreserves ==
    (/\ Calls >= 1
     /\ len >= 0 /\ Cap(data) >= len
     /\ \A i \in 0..(len - 1) : data[i] = 0) => out = hist[1]

\* Where the declared length is exactly one vector and both allocations
\* hold it, the call agrees with the per-sample reference.
FullVectorMatchesReference ==
    (len = NumLanes /\ ~OutOfBounds(hist[1], data) /\ Calls = 1)
        => out = Reference(hist[1], data, len)

\* C3: the accumulate step saturates instead of wrapping: every stored
\* sample equals max(-32768, min(32767, o + c)), never o + c modulo 2^16;
\* lvol = 255, sample -128 and pre-existing output -32768 gives -32768.
C3_Saturates ==
    pc = "done" =>
        \A i \in StoredOut :
            LET o == hist[1][i]
                c == Contribution(data[i \div 2], VolOf(i))
            IN  /\ out[i] = Max(-32768, Min(32767, o + c))
                /\ (o + c < -32768 \/ o + c > 32767)
                       => out[i] # AsS16(Bits16(o + c))
                /\ (i % 2 = 0 /\ lvol = 255 /\ data[i \div 2] = -128 /\ o = -32768)
                       => out[i] = -32768

C3_Witness ==
    /\ pc = "done"
    /\ lvol = 255 /\ data[0] = -128 /\ hist[1][0] = -32768
    /\ Contribution(data[0], lvol) < 0
    /\ out[0] = -32768

\* C9: the 16-bit signed lane arithmetic is exact: the scale factor read
\* as a signed 16-bit lane equals the volume, and the 16-bit product of the
\* sign-extended sample and the factor equals s * v, within
\* [-32640, 32385].
C9_LanesExact ==
    /\ pc # "scale" =>
          \A k \in Lanes : /\ AsS16(regs.scale_factor_16_l_s[k]) = lvol
                           /\ AsS16(regs.scale_factor_16_r_s[k]) = rvol
    /\ pc \in {"shift", "add", "done"} =>
          \A k \in Lanes : /\ AsS16(regs.data_unpacked[k]) = data[k]
                           /\ AsS16(regs.mul_l[k]) = data[k] * lvol
                           /\ AsS16(regs.mul_r[k]) = data[k] * rvol
                           /\ AsS16(regs.mul_l[k]) \in -32640..32385
                           /\ AsS16(regs.mul_r[k]) \in -32640..32385

C9_Witness ==
    /\ pc = "shift"
    /\ lvol = 255 /\ rvol = 0
    /\ data[0] = -128
    /\ AsS16(regs.scale_factor_16_l_s[0]) = 255
    /\ AsS16(regs.mul_l[0]) = -32640

\* The statement-by-statement run stores what the one-step body computes.
StepwiseAgrees ==
    pc = "done" => out = MixBody(hist[1], data, lvol, rvol, len, 0)

C8_ParallelEqualsSequential ==
    (\A t \in Threads : pc[t] = "done") =>
        /\ out = CallAt(CallAt(hist[1], "A"), "B")
        /\ out = CallAt(CallAt(hist[1], "B"), "A")

\* Where the declared length is exactly one vector the two calls touch
\* disjoint entries and every interleaving gives the sequential result.
ParallelFullVector ==
    (len = NumLanes /\ \A t \in Threads : pc[t] = "done") =>
        /\ out = CallAt(CallAt(hist[1], "A"), "B")
        /\ out = CallAt(CallAt(hist[1], "B"), "A")

====
